---------------------------- MODULE Spec2Model ----------------------------
(***************************************************************************)
(* Orchestration layer of src/cli.js: readSass, createTypings, the batch   *)
(* and watch accounting closures and main.                                 *)
(*                                                                         *)
(* The collaborators (sass.render, creator.create, writeFile, glob,        *)
(* chokidar) are the environment: each of their completions is one action  *)
(* whose result is chosen nondeterministically.  One action is one turn of *)
(* the event loop: the collaborator's completion together with every       *)
(* promise reaction that follows from it before the next collaborator call *)
(* is pending.                                                             *)
(***************************************************************************)
EXTENDS Integers, Sequences, FiniteSets, TLC

\* ---------------------------------------------------------------- bounds
MaxFiles == 2       \* files the glob can match
MaxEvents == 2      \* watcher events delivered in one run
MaxWarnings == 2    \* length of an artifact's messageList

\* ---------------------------------------------------------------- values
Undefined == "undefined"

PathOf == <<"a.scss", "b.scss", "c.scss", "d.scss">>
Paths == {PathOf[i] : i \in 1..MaxFiles}
\* The files the watcher reports on: two are enough for events on the same
\* file and on different files.
WatchPaths == {PathOf[1], PathOf[2]}

\* DtsContent.outputFilePath as the creator derives it from the source path.
OutputFilePath(pathName) ==
    CASE pathName = "a.scss" -> "a.scss.d.ts"
      [] pathName = "b.scss" -> "b.scss.d.ts"
      [] pathName = "c.scss" -> "c.scss.d.ts"
      [] OTHER -> "d.scss.d.ts"

InputDirs == {"src"}
RenderErrors == {"SassError"}
CreateErrors == {"CreateError"}
WriteErrors == {"EACCES"}
GlobErrors == {"EGLOB"}
CssTexts == {".a{}"}
WarningTexts == <<"w1", "w2", "w3", "w4">>
EventKinds == {"add", "change", "unlink"}

\* The warning lists an artifact can carry: k distinct messages, k up to the
\* bound, in the order the engine detected them.
MessageLists == {SubSeq(WarningTexts, 1, k) : k \in 0..MaxWarnings}

\* path.join(searchDir, argv.p) with the default pattern, backslashes replaced.
FilesPattern(searchDir) ==
    IF searchDir = "." THEN "**/[^_]*.scss" ELSE "src/**/[^_]*.scss"

\* ------------------------------------------------------------ console lines
Line(stream, tag, path, info, n1, n2) ==
    [stream |-> stream, tag |-> tag, path |-> path, info |-> info,
     n1 |-> n1, n2 |-> n2]

\* `${chalk.yellow(`WARNING: ${pathName}`)}\n${message}`
WarningMessage(pathName, message) ==
    Line("warn", "WARNING: ", pathName, message, 0, 0)

\* `${chalk.red(`ERROR: ${pathName}`)}\n${reason}`
ErrorMessage(pathName, reason) ==
    Line("error", "ERROR: ", pathName, reason, 0, 0)

VARIABLES
    argv,       \* parsed command line: inputDir, w, v
    dirExists,  \* fs.existsSync(searchDir)
    mainPc,     \* position of main and of the glob callback
    cache,      \* const cache = !!argv.w (unread before main sets it)
    globCalls,  \* number of glob(...) calls
    handlers,   \* event kinds of the watcher that have a listener
    watchers,   \* number of chokidar.watch(...) calls
    events,     \* watcher events delivered so far
    cycles,     \* accounting closures: one per batch run or handler call,
                \* each with the lines its callbacks printed, in order
    pipes,      \* createTypings invocations
    console,    \* lines main and the glob callback printed, in order
    probe,      \* a direct readSass call (used by SpecReadSass only)
    discovered  \* the pathNames list the glob callback was handed

vars == <<argv, dirExists, mainPc, cache, globCalls, handlers, watchers,
          events, cycles, pipes, console, probe, discovered>>

\* ------------------------------------------------------------------ readSass
\* The settle calls (resolve / reject) the sass.render callback makes, in
\* order.  err = Undefined means the render succeeded with css text `css`.
Settle(op, kind, value) == [op |-> op, kind |-> kind, value |-> value]

\* Faulty variant: the suppression test forgets the root sentinel, so a failure with
\* relativeTo = '/' is suppressed too.
ReadSassCallbackRootSuppressed(err, css, relativeTo) ==
    LET truthy == relativeTo # Undefined /\ relativeTo # ""
    IN  IF err # Undefined /\ truthy
        THEN <<Settle("resolve", "array", "")>>
        ELSE IF err # Undefined
        THEN <<Settle("reject", "error", err)>>
        ELSE <<Settle("resolve", "text", css)>>

ReadSassCallback(err, css, relativeTo) ==
    LET truthy == relativeTo # Undefined /\ relativeTo # ""
    IN  IF err # Undefined /\ (truthy /\ relativeTo # "/")
        THEN <<Settle("resolve", "array", "")>>
        ELSE IF err # Undefined /\ (~truthy \/ relativeTo = "/")
        THEN <<Settle("reject", "error", err)>>
        ELSE <<Settle("resolve", "text", css)>>

\* A promise takes the first settle call and ignores the rest.
ReadSass(err, css, relativeTo) == Head(ReadSassCallback(err, css, relativeTo))


\* ------------------------------------------------------------ call records
\* One call a createTypings invocation makes, to a collaborator or to one of
\* the callbacks it was handed.  tag/path/text are the message for onWarning
\* and onError, path/text/cache the arguments for creator.create.
Call(fn, tag, path, text, cacheArg) ==
    [fn |-> fn, tag |-> tag, path |-> path, text |-> text, cache |-> cacheArg]

\* The value a settled createTypings promise carries.
NoValue ==
    [kind |-> "undefined", outputFilePath |-> "", hasMessageList |-> FALSE,
     messageList |-> <<>>]

Artifact(pathName, hasList, list) ==
    [kind |-> "artifact", outputFilePath |-> OutputFilePath(pathName),
     hasMessageList |-> hasList, messageList |-> list]

\* The state one event-loop turn of a pipeline threads through the callbacks:
\* its accounting closure (counters, lines printed) and its own call log.
St(cy, calls) == [cy |-> cy, calls |-> calls]

NewCycle(mode, pathName, n) ==
    [mode |-> mode, pathName |-> pathName, n |-> n, warnings |-> 0,
     errors |-> 0, completions |-> 0, readW |-> 0, readE |-> 0,
     console |-> <<>>]

\* ------------------------------------------- createTypingsForFileOnWatch
WatchHandleError(st, error) ==
    [st EXCEPT !.cy.console = Append(@, error), !.cy.errors = @ + 1]

\* Faulty variant: the warning handler bumps the error counter.
WatchHandleWarningAsError(st, warning) ==
    [st EXCEPT !.cy.console = Append(@, warning), !.cy.errors = @ + 1]

WatchHandleWarning(st, warning) ==
    [st EXCEPT !.cy.console = Append(@, warning), !.cy.warnings = @ + 1]

\* Faulty variant: the summary is printed whatever the counters are.
WatchOnCompleteAlways(st) ==
    LET w == st.cy.warnings
        e == st.cy.errors
    IN  [st EXCEPT !.cy = [@ EXCEPT !.console =
                                        Append(@, Line("info", "watchSummary",
                                                       st.cy.pathName, "",
                                                       w, e)),
                                    !.readW = w, !.readE = e,
                                    !.warnings = 0, !.errors = 0,
                                    !.completions = @ + 1]]

WatchOnComplete(st) ==
    LET w == st.cy.warnings
        e == st.cy.errors
        con == IF w + e > 0
               THEN Append(st.cy.console,
                           Line("info", "watchSummary", st.cy.pathName, "",
                                w, e))
               ELSE st.cy.console
    IN  [st EXCEPT !.cy = [@ EXCEPT !.console = con, !.readW = w, !.readE = e,
                                    !.warnings = 0, !.errors = 0,
                                    !.completions = @ + 1]]

\* ------------------------------------------------- createTypingsForFiles
\* Faulty variant: the error is printed but not counted.
BatchHandleErrorNoCount(st, error) ==
    [st EXCEPT !.cy.console = Append(@, error)]

BatchHandleError(st, error) ==
    [st EXCEPT !.cy.console = Append(@, error), !.cy.errors = @ + 1]

BatchHandleWarning(st, warning) ==
    [st EXCEPT !.cy.console = Append(@, warning), !.cy.warnings = @ + 1]

BatchOnComplete(st) ==
    LET w == st.cy.warnings
        e == st.cy.errors
        con == IF w + e > 0
               THEN Append(st.cy.console,
                           Line("info", "batchSummary", "", "", w, e))
               ELSE st.cy.console
    IN  [st EXCEPT !.cy = [@ EXCEPT !.console = con, !.readW = w, !.readE = e,
                                    !.warnings = 0, !.errors = 0,
                                    !.completions = @ + 1]]

\* The handleError / handleWarning closure a pipeline of this cycle was handed.
OnError(st, error) ==
    IF st.cy.mode = "batch" THEN BatchHandleError(st, error)
                            ELSE WatchHandleError(st, error)

OnWarning(st, warning) ==
    IF st.cy.mode = "batch" THEN BatchHandleWarning(st, warning)
                            ELSE WatchHandleWarning(st, warning)

\* ------------------------------------------------------------ createTypings
\* Faulty variant: the warnings are reported last to first.
RECURSIVE ForEachMessageReversed(_, _, _)
ForEachMessageReversed(st, pathName, list) ==
    IF list = <<>> THEN st
    ELSE LET msg == WarningMessage(pathName, list[Len(list)])
             logged == [st EXCEPT !.calls =
                           Append(@, Call("handleWarning", msg.tag, msg.path,
                                          msg.info, FALSE))]
         IN  ForEachMessageReversed(OnWarning(logged, msg), pathName,
                                    SubSeq(list, 1, Len(list) - 1))

\* c.messageList.forEach(message => handleWarning(...))
RECURSIVE ForEachMessage(_, _, _)
ForEachMessage(st, pathName, list) ==
    IF list = <<>> THEN st
    ELSE LET msg == WarningMessage(pathName, Head(list))
             logged == [st EXCEPT !.calls =
                           Append(@, Call("handleWarning", msg.tag, msg.path,
                                          msg.info, FALSE))]
         IN  ForEachMessage(OnWarning(logged, msg), pathName, Tail(list))

\* Faulty variant: the warnings are reported before the verbose line.
ThenReportWarnFirst(st, pathName, c, verbose) ==
    LET st1 == IF c.hasMessageList
               THEN ForEachMessage(st, pathName, c.messageList) ELSE st
    IN  IF verbose
        THEN [st1 EXCEPT !.cy.console =
                 Append(@, Line("info", "Created ", c.outputFilePath, "", 0,
                                0)),
                         !.calls =
                 Append(@, Call("console.info", "Created ",
                                c.outputFilePath, "", FALSE))]
        ELSE st1

\* The third .then: the verbose line, the warnings, return c.
ThenReport(st, pathName, c, verbose) ==
    LET st1 == IF verbose
               THEN [st EXCEPT !.cy.console =
                        Append(@, Line("info", "Created ", c.outputFilePath,
                                       "", 0, 0)),
                               !.calls =
                        Append(@, Call("console.info", "Created ",
                                       c.outputFilePath, "", FALSE))]
               ELSE st
    IN  IF c.hasMessageList THEN ForEachMessage(st1, pathName, c.messageList)
                            ELSE st1

\* Faulty variant: the last .then returns nothing.
ReportReturnsNothing(c) == NoValue

\* return c;
ReportReturns(c) == c

\* Faulty variant: the .catch swallows the failure without reporting it.
CatchSilent(st, pathName, reason) == st

\* The .catch: handleError with the two-line message.
Catch(st, pathName, reason) ==
    LET msg == ErrorMessage(pathName, reason)
        logged == [st EXCEPT !.calls =
                      Append(@, Call("handleError", msg.tag, msg.path,
                                     msg.info, FALSE))]
    IN  OnError(logged, msg)

\* Faulty variant: the .catch handler rethrows, so the invocation rejects.
CatchRethrows == "rejected"

\* How the promise createTypings returns settles once its .catch has run: the
\* handler returns nothing, so the rejection is absorbed.
CatchSettles == "resolved"

\* A createTypings invocation at its start: readSass(pathName) has called
\* sass.render and nothing has settled.
NewPipe(cycle, pathName) ==
    [cycle |-> cycle, pathName |-> pathName, pc |-> "render",
     value |-> NoValue, render |-> "", create |-> "", write |-> "",
     wrote |-> NoValue,
     calls |-> <<Call("sass.render", "", pathName, "", FALSE)>>]

\* ------------------------------------------------------------------- main
\* Faulty variant: the flag is negated once instead of twice.
CacheFlagNegated(a) == ~a.w

\* const cache = !!argv.w
CacheFlag(a) == a.w

\* Faulty variant: the handler is attached to unlink as well.
WatchedKindsWithUnlink == {"add", "change", "unlink"}

\* The event kinds main attaches the watch handler to.
WatchedKinds == {"add", "change"}

\* glob results are the sorted matches: the sorted list of a set of paths.
SortedList(S) == SelectSeq(SubSeq(PathOf, 1, MaxFiles), LAMBDA p : p \in S)
GlobLists == {SortedList(S) : S \in SUBSET Paths}
\* The pathNames argument of the glob callback: a list, or nothing at all.
GlobResults ==
    {[defined |-> TRUE, list |-> l] : l \in GlobLists}
        \cup {[defined |-> FALSE, list |-> <<>>]}

\* !pathNames || !pathNames.length
NoFiles(pathNames) == ~pathNames.defined \/ Len(pathNames.list) = 0

NoProbe ==
    [pc |-> "none", pathName |-> "", relativeTo |-> "", err |-> "",
     css |-> "", settles |-> <<>>]

Init ==
    /\ argv \in [inputDir : InputDirs, w : BOOLEAN, v : BOOLEAN]
    /\ dirExists \in BOOLEAN
    /\ mainPc = "start"
    /\ cache = FALSE
    /\ globCalls = 0
    /\ handlers = {}
    /\ watchers = 0
    /\ events = <<>>
    /\ cycles = <<>>
    /\ pipes = <<>>
    /\ console = <<>>
    /\ probe = NoProbe
    /\ discovered = <<>>

\* main.  yargs prints the help and exits the process itself while it parses
\* -h (.help('h')), and inputDir has the default '.', so neither showHelp
\* branch of main is ever taken and neither is an action here.

\* Faulty variant: the missing-directory branch does not return and goes on to glob.
MainMissingDirFallsThrough ==
    /\ mainPc = "start"
    /\ ~dirExists
    /\ console' = Append(console,
                         Line("error", "missingDir", argv.inputDir, "", 0, 0))
    /\ cache' = CacheFlag(argv)
    /\ globCalls' = globCalls + 1
    /\ mainPc' = "glob"
    /\ UNCHANGED <<argv, dirExists, handlers, watchers, events, cycles, pipes,
                   probe,
                   discovered>>

\* if (!fs.existsSync(searchDir)) { console.error(...); return; }
MainMissingDir ==
    /\ mainPc = "start"
    /\ ~dirExists
    /\ console' = Append(console,
                         Line("error", "missingDir", argv.inputDir, "", 0, 0))
    /\ mainPc' = "missingDir"
    /\ UNCHANGED <<argv, dirExists, cache, globCalls, handlers, watchers,
                   events, cycles, pipes, probe,
                   discovered>>

\* if (!argv.w) { glob(filesPattern, globOptions, callback) }
MainBatch ==
    /\ mainPc = "start"
    /\ dirExists
    /\ ~argv.w
    /\ cache' = CacheFlag(argv)
    /\ globCalls' = globCalls + 1
    /\ mainPc' = "glob"
    /\ UNCHANGED <<argv, dirExists, handlers, watchers, events, cycles, pipes,
                   console, probe,
                   discovered>>

\* Faulty variant: the watch branch also starts the glob discovery.
MainWatchAlsoGlobs ==
    /\ mainPc = "start"
    /\ dirExists
    /\ argv.w
    /\ cache' = CacheFlag(argv)
    /\ console' = Append(console,
                         Line("info", "Watching ", FilesPattern(argv.inputDir),
                              "", 0, 0))
    /\ watchers' = watchers + 1
    /\ handlers' = WatchedKinds
    /\ globCalls' = globCalls + 1
    /\ mainPc' = "watching"
    /\ UNCHANGED <<argv, dirExists, events, cycles, pipes, probe,
                   discovered>>

\* else { console.info(`Watching ...`); chokidar.watch(...); watcher.on(...) }
MainWatch ==
    /\ mainPc = "start"
    /\ dirExists
    /\ argv.w
    /\ cache' = CacheFlag(argv)
    /\ console' = Append(console,
                         Line("info", "Watching ", FilesPattern(argv.inputDir),
                              "", 0, 0))
    /\ watchers' = watchers + 1
    /\ handlers' = WatchedKinds
    /\ mainPc' = "watching"
    /\ UNCHANGED <<argv, dirExists, globCalls, events, cycles, pipes, probe,
                   discovered>>

\* Faulty variant: the last path gets no pipeline.
CreateTypingsForFilesSkipsLast(pathNames) ==
    /\ cycles' = Append(cycles, NewCycle("batch", "", Len(pathNames)))
    /\ pipes' = pipes \o [k \in 1..(Len(pathNames) - 1) |->
                              NewPipe(Len(cycles) + 1, pathNames[k])]

\* Faulty variant: the pipelines run one after another, so only the first is
\* started in the dispatching turn.
CreateTypingsForFilesOneAtATime(pathNames) ==
    /\ cycles' = Append(cycles, NewCycle("batch", "", Len(pathNames)))
    /\ pipes' = Append(pipes, NewPipe(Len(cycles) + 1, pathNames[1]))

\* createTypingsForFiles(creator, cache, verbose)(pathNames): fresh counters,
\* one createTypings per path, all started in this turn.
CreateTypingsForFiles(pathNames) ==
    /\ cycles' = Append(cycles, NewCycle("batch", "", Len(pathNames)))
    /\ pipes' = pipes \o [k \in 1..Len(pathNames) |->
                              NewPipe(Len(cycles) + 1, pathNames[k])]

\* Faulty variant: the error branch does not return, and the callback goes on
\* to the zero-file notice.
GlobErrorFallsThrough ==
    /\ mainPc = "glob"
    /\ \E err \in GlobErrors :
          console' = console \o
                         <<Line("error", "globError", "", err, 0, 0),
                           Line("info", "Creating typings for 0 files", "",
                                "", 0, 0)>>
    /\ mainPc' = "globError"
    /\ UNCHANGED <<argv, dirExists, cache, globCalls, handlers, watchers,
                   events, cycles, pipes, probe,
                   discovered>>

\* glob callback: if (err) { console.error(err); return; }
GlobError ==
    /\ mainPc = "glob"
    /\ \E err \in GlobErrors :
          console' = Append(console, Line("error", "globError", "", err, 0, 0))
    /\ mainPc' = "globError"
    /\ UNCHANGED <<argv, dirExists, cache, globCalls, handlers, watchers,
                   events, cycles, pipes, probe,
                   discovered>>

\* Faulty variant: the zero-file branch does not return and goes on to the batch.
GlobEmptyFallsThrough ==
    /\ mainPc = "glob"
    /\ console' = console \o
                      <<Line("info", "Creating typings for 0 files", "", "",
                             0, 0),
                        Line("info", "Creating typings for ", "", "", 0, 0)>>
    /\ CreateTypingsForFiles(<<>>)
    /\ mainPc' = "zeroFiles"
    /\ UNCHANGED <<argv, dirExists, cache, globCalls, handlers, watchers,
                   events, probe,
                   discovered>>

\* else if (!pathNames || !pathNames.length) { console.info('... 0 files') }
GlobEmpty ==
    /\ mainPc = "glob"
    /\ \E pathNames \in GlobResults :
          /\ NoFiles(pathNames)
          /\ console' = Append(console,
                               Line("info", "Creating typings for 0 files",
                                    "", "", 0, 0))
    /\ mainPc' = "zeroFiles"
    /\ UNCHANGED <<argv, dirExists, cache, globCalls, handlers, watchers,
                   events, cycles, pipes, probe,
                   discovered>>

\* console.info(`Creating typings for ${pathNames.length} files\n`); ...
\* The line is printed before createTypingsForFiles is called: its last field
\* records how many pipelines had been started when it was printed.
GlobFiles ==
    /\ mainPc = "glob"
    /\ \E pathNames \in GlobResults :
          /\ ~NoFiles(pathNames)
          /\ console' = Append(console,
                               Line("info", "Creating typings for ", "", "",
                                    Len(pathNames.list), Len(pipes)))
          /\ CreateTypingsForFiles(pathNames.list)
          /\ discovered' = pathNames.list
    /\ mainPc' = "batch"
    /\ UNCHANGED <<argv, dirExists, cache, globCalls, handlers, watchers,
                   events, probe>>

\* createTypingsForFileOnWatch(creator, cache, verbose)(pathName): fresh
\* counters and one createTypings for the path.
CreateTypingsForFileOnWatch(pathName) ==
    /\ cycles' = Append(cycles, NewCycle("watch", pathName, 1))
    /\ pipes' = Append(pipes, NewPipe(Len(cycles) + 1, pathName))

\* Faulty variant: an event for a file whose pipeline is still in flight is
\* dropped (debounced).
EmitDebounced(kind, pathName) ==
    /\ \A i \in 1..Len(pipes) :
          pipes[i].pathName = pathName => pipes[i].pc = "resolved"
    /\ events' = Append(events, [kind |-> kind, path |-> pathName])
    /\ CreateTypingsForFileOnWatch(pathName)

\* The watcher emits `kind` with pathName and the listener main attached to
\* that kind runs: the handler is called at once, whatever is in flight.
Emit(kind, pathName) ==
    /\ events' = Append(events, [kind |-> kind, path |-> pathName])
    /\ CreateTypingsForFileOnWatch(pathName)

\* The watcher delivers an event of a kind that has a listener.
WatchEventHandled ==
    /\ mainPc = "watching"
    /\ Len(events) < MaxEvents
    /\ \E kind \in handlers, pathName \in WatchPaths : Emit(kind, pathName)
    /\ UNCHANGED <<argv, dirExists, mainPc, cache, globCalls, handlers,
                   watchers, console, probe,
                   discovered>>

\* The watcher delivers an event no listener is attached to.
WatchEventIgnored ==
    /\ mainPc = "watching"
    /\ Len(events) < MaxEvents
    /\ \E kind \in EventKinds \ handlers, pathName \in WatchPaths :
          events' = Append(events, [kind |-> kind, path |-> pathName])
    /\ UNCHANGED <<argv, dirExists, mainPc, cache, globCalls, handlers,
                   watchers, cycles, pipes, console, probe,
                   discovered>>

\* ------------------------------------------------- pipeline turns (actions)
PipeSt(i) == St(cycles[pipes[i].cycle], pipes[i].calls)

\* Faulty variant: the cycle's promise resolves with the first pipeline that
\* resolves (a race instead of Promise.all).
CycleResolvesOnFirst(i, pc) == pc = "resolved"

\* Whether the promise the cycle of pipeline i waits on (Promise.all of the
\* batch's pipelines, the handler's single createTypings promise) resolves in
\* the turn in which pipeline i settles as pc: every one of them is resolved.
CycleResolves(i, pc) ==
    /\ pc = "resolved"
    /\ \A j \in 1..Len(pipes) :
          (j # i /\ pipes[j].cycle = pipes[i].cycle)
              => pipes[j].pc = "resolved"

\* .then(onComplete) of the cycle's closure.
OnComplete(st) ==
    IF st.cy.mode = "batch" THEN BatchOnComplete(st) ELSE WatchOnComplete(st)

\* Write back what one turn of pipeline i did; the reaction on the cycle's
\* promise runs in the same turn when this settlement resolves it.  `step`
\* and `result` record what the collaborator answered ("ok" / "err"), `c` the
\* artifact writeFile resolved with.
Commit(i, st, pc, value, step, result, c) ==
    LET fin == IF CycleResolves(i, pc) THEN OnComplete(st) ELSE st
    IN  /\ pipes' = [pipes EXCEPT ![i] =
                        [@ EXCEPT !.pc = pc, !.value = value,
                                  !.calls = fin.calls, ![step] = result,
                                  !.wrote = c]]
        /\ cycles' = [cycles EXCEPT ![pipes[i].cycle] = fin.cy]

\* sass.render calls back.  readSass(pathName) was called without relativeTo.
\* Resolved: the first .then calls creator.create(pathName, content, cache).
\* Rejected: the .catch runs and the invocation settles.
RenderDone(i) ==
    /\ pipes[i].pc = "render"
    /\ \E err \in RenderErrors \cup {Undefined}, css \in CssTexts :
          LET s == ReadSass(err, css, Undefined)
              st == PipeSt(i)
              p == pipes[i].pathName
          IN  IF s.op = "resolve"
              THEN Commit(i, [st EXCEPT !.calls =
                                 Append(@, Call("creator.create", "", p,
                                                s.value, cache))],
                          "create", NoValue, "render", "ok", NoValue)
              ELSE Commit(i, Catch(st, p, s.value), CatchSettles, NoValue,
                          "render", "err", NoValue)
    /\ UNCHANGED <<argv, dirExists, mainPc, cache, globCalls, handlers,
                   watchers, events, console, probe,
                   discovered>>

\* creator.create settles.  Resolved: the second .then calls c.writeFile().
CreateDone(i) ==
    /\ pipes[i].pc = "create"
    /\ \E err \in CreateErrors \cup {Undefined} :
          LET st == PipeSt(i)
              p == pipes[i].pathName
          IN  IF err = Undefined
              THEN Commit(i, [st EXCEPT !.calls =
                                 Append(@, Call("writeFile", "", p, "",
                                                FALSE))],
                          "write", NoValue, "create", "ok", NoValue)
              ELSE Commit(i, Catch(st, p, err), CatchSettles, NoValue,
                          "create", "err", NoValue)
    /\ UNCHANGED <<argv, dirExists, mainPc, cache, globCalls, handlers,
                   watchers, events, console, probe,
                   discovered>>

\* writeFile settles.  Resolved with the artifact c (its messageList may be
\* missing): the third .then reports and the invocation resolves to c.
WriteDone(i) ==
    /\ pipes[i].pc = "write"
    /\ \E err \in WriteErrors \cup {Undefined}, hasList \in BOOLEAN,
          list \in MessageLists :
          /\ (err # Undefined \/ ~hasList) => list = <<>>
          /\ err # Undefined => ~hasList
          /\ LET st == PipeSt(i)
                 p == pipes[i].pathName
                 c == Artifact(p, hasList, list)
             IN  IF err = Undefined
                 THEN Commit(i, ThenReport(st, p, c, argv.v), "resolved",
                             ReportReturns(c), "write", "ok", c)
                 ELSE Commit(i, Catch(st, p, err), CatchSettles, NoValue,
                             "write", "err", NoValue)
    /\ UNCHANGED <<argv, dirExists, mainPc, cache, globCalls, handlers,
                   watchers, events, console, probe,
                   discovered>>

Next ==
    \/ MainMissingDir
    \/ MainBatch
    \/ MainWatch
    \/ GlobError
    \/ GlobEmpty
    \/ GlobFiles
    \/ WatchEventHandled
    \/ WatchEventIgnored
    \/ \E i \in 1..Len(pipes) : RenderDone(i)
    \/ \E i \in 1..Len(pipes) : CreateDone(i)
    \/ \E i \in 1..Len(pipes) : WriteDone(i)

Spec == Init /\ [][Next]_vars


\* ------------------------------------------------ readSass called directly
\* readSass(pathName, relativeTo) on its own, for every relativeTo a caller
\* can pass: unset, the empty string, the root '/', and other paths.
RelativeTos == {Undefined, "", "/", ".", "src", "/src", "a.scss", "//"}
ProbeErrors == {"SassError", "ENOENT"}
ProbeCss == {"", ".a{}", ".b{}"}

InitReadSass ==
    /\ argv = [inputDir |-> "src", w |-> FALSE, v |-> FALSE]
    /\ dirExists = TRUE
    /\ mainPc = "start"
    /\ cache = FALSE
    /\ globCalls = 0
    /\ handlers = {}
    /\ watchers = 0
    /\ events = <<>>
    /\ cycles = <<>>
    /\ pipes = <<>>
    /\ console = <<>>
    /\ probe \in [pc : {"idle"}, pathName : Paths, relativeTo : RelativeTos,
                  err : {""}, css : {""}, settles : {<<>>}]
    /\ discovered = <<>>

\* new Promise(...): the executor calls sass.render.
ProbeCall ==
    /\ probe.pc = "idle"
    /\ probe' = [probe EXCEPT !.pc = "render"]
    /\ UNCHANGED <<argv, dirExists, mainPc, cache, globCalls, handlers,
                   watchers, events, cycles, pipes, console, discovered>>

\* sass.render calls back with (err, result).
ProbeRenderDone ==
    /\ probe.pc = "render"
    /\ \E err \in ProbeErrors \cup {Undefined}, css \in ProbeCss :
          /\ err # Undefined => css = ""
          /\ probe' = [probe EXCEPT
                          !.pc = "settled", !.err = err, !.css = css,
                          !.settles = ReadSassCallback(err, css,
                                                       probe.relativeTo)]
    /\ UNCHANGED <<argv, dirExists, mainPc, cache, globCalls, handlers,
                   watchers, events, cycles, pipes, console, discovered>>

NextReadSass == ProbeCall \/ ProbeRenderDone

SpecReadSass == InitReadSass /\ [][NextReadSass]_vars

\* ================================================================ properties
PipesOf(c) == {i \in 1..Len(pipes) : pipes[i].cycle = c}
CallsTo(i, fn) == SelectSeq(pipes[i].calls, LAMBDA k : k.fn = fn)
NumCalls(i, fn) == Len(CallsTo(i, fn))

RECURSIVE TotalCalls(_, _)
TotalCalls(S, fn) ==
    IF S = {} THEN 0
    ELSE LET i == CHOOSE x \in S : TRUE
         IN  NumCalls(i, fn) + TotalCalls(S \ {i}, fn)

\* What the collaborators' answers for pipeline i amount to.
Failed(i) == "err" \in {pipes[i].render, pipes[i].create, pipes[i].write}
Succeeded(i) ==
    pipes[i].render = "ok" /\ pipes[i].create = "ok" /\ pipes[i].write = "ok"
WarningList(i) ==
    IF pipes[i].write = "ok" /\ pipes[i].wrote.hasMessageList
    THEN pipes[i].wrote.messageList ELSE <<>>
Pending(i) == pipes[i].pc \in {"render", "create", "write"}

RECURSIVE TotalWarnings(_)
TotalWarnings(S) ==
    IF S = {} THEN 0
    ELSE LET i == CHOOSE x \in S : TRUE
         IN  Len(WarningList(i)) + TotalWarnings(S \ {i})

SummaryTags == {"batchSummary", "watchSummary"}
Summaries(c) == SelectSeq(cycles[c].console, LAMBDA l : l.tag \in SummaryTags)
LinesTagged(lines, tag) == SelectSeq(lines, LAMBDA l : l.tag = tag)

BatchCycles == {c \in 1..Len(cycles) : cycles[c].mode = "batch"}
WatchCycles == {c \in 1..Len(cycles) : cycles[c].mode = "watch"}

\* C1: when a batch completes, the warnings and errors values its onComplete
\* reads (and prints, when it prints a summary) are the number of onWarning
\* calls and the number of onError calls its pipelines made.
BatchSummaryCountsCalls ==
    \A c \in BatchCycles :
        cycles[c].completions > 0 =>
            /\ cycles[c].readW = TotalCalls(PipesOf(c), "handleWarning")
            /\ cycles[c].readE = TotalCalls(PipesOf(c), "handleError")
            /\ \A k \in 1..Len(Summaries(c)) :
                  /\ Summaries(c)[k].n1
                        = TotalCalls(PipesOf(c), "handleWarning")
                  /\ Summaries(c)[k].n2
                        = TotalCalls(PipesOf(c), "handleError")

\* A completed batch of two files with warnings and an error.
BatchSummaryCountsCallsWitness ==
    \E c \in BatchCycles :
        /\ cycles[c].completions > 0
        /\ cycles[c].n = 2
        /\ cycles[c].readW = 2
        /\ cycles[c].readE = 1
        /\ Len(Summaries(c)) = 1

\* C2: a pipeline whose render failed has resolved with no value, called
\* onError exactly once with a message naming its path, never called
\* onWarning, creator.create or writeFile, and every other pipeline of the
\* same batch that is still pending can take its next step.
RenderFailureAbsorbed ==
    \A i \in 1..Len(pipes) :
        pipes[i].render = "err" =>
            /\ pipes[i].pc = "resolved"
            /\ pipes[i].value = NoValue
            /\ NumCalls(i, "handleError") = 1
            /\ CallsTo(i, "handleError")[1].path = pipes[i].pathName
            /\ CallsTo(i, "handleError")[1].tag = "ERROR: "
            /\ NumCalls(i, "handleWarning") = 0
            /\ NumCalls(i, "creator.create") = 0
            /\ NumCalls(i, "writeFile") = 0
            /\ pipes[i].wrote = NoValue
            /\ \A j \in PipesOf(pipes[i].cycle) :
                  Pending(j) =>
                      ENABLED (RenderDone(j) \/ CreateDone(j) \/ WriteDone(j))

\* A batch in which one file's render failed and another file's artifact was
\* written afterwards.
RenderFailureAbsorbedWitness ==
    \E c \in BatchCycles : \E i, j \in PipesOf(c) :
        /\ pipes[i].render = "err"
        /\ pipes[j].value.kind = "artifact"
        /\ cycles[c].completions = 1
        /\ cycles[c].console[1].tag = "ERROR: "

\* C3: every watch event has its own counters, starting at (0,0); the values
\* its onComplete reads and the summary it prints are the warnings and errors
\* of that event's own pipeline, whatever the other events did and whether
\* the event was an add or a change.
WatchCountersPerEvent ==
    \A c \in WatchCycles :
        /\ Cardinality(PipesOf(c)) = 1
        /\ \A i \in PipesOf(c) :
              /\ pipes[i].pathName = cycles[c].pathName
              /\ Pending(i) =>
                    /\ cycles[c].warnings = 0
                    /\ cycles[c].errors = 0
                    /\ cycles[c].console = <<>>
              /\ cycles[c].completions > 0 =>
                    /\ cycles[c].readW = Len(WarningList(i))
                    /\ cycles[c].readE = (IF Failed(i) THEN 1 ELSE 0)
                    /\ \A k \in 1..Len(Summaries(c)) :
                          /\ Summaries(c)[k].tag = "watchSummary"
                          /\ Summaries(c)[k].path = pipes[i].pathName
                          /\ Summaries(c)[k].n1 = Len(WarningList(i))
                          /\ Summaries(c)[k].n2 = (IF Failed(i) THEN 1 ELSE 0)

\* An add of a.scss with 2 warnings and a change of b.scss with 1 error:
\* the summaries are a.scss 2/0 and b.scss 0/1.
WatchCountersPerEventWitness ==
    /\ Len(events) = 2
    /\ events[1] = [kind |-> "add", path |-> "a.scss"]
    /\ events[2] = [kind |-> "change", path |-> "b.scss"]
    /\ Len(cycles) = 2
    /\ Summaries(1) = <<Line("info", "watchSummary", "a.scss", "", 2, 0)>>
    /\ Summaries(2) = <<Line("info", "watchSummary", "b.scss", "", 0, 1)>>

\* C4: a completed batch all of whose N files rendered, were created and were
\* written has one pipeline and one written artifact per path, at most one
\* summary, warnings equal to the sum of the warning-list lengths, errors 0.
BatchAllSucceed ==
    \A c \in BatchCycles :
        (cycles[c].completions > 0 /\ \A i \in PipesOf(c) : Succeeded(i)) =>
            /\ Cardinality(PipesOf(c)) = cycles[c].n
            /\ Cardinality({pipes[i].pathName : i \in PipesOf(c)})
                  = cycles[c].n
            /\ \A i \in PipesOf(c) :
                  /\ NumCalls(i, "writeFile") = 1
                  /\ pipes[i].wrote.kind = "artifact"
                  /\ pipes[i].wrote.outputFilePath
                        = OutputFilePath(pipes[i].pathName)
            /\ LinesTagged(console, "Creating typings for ")
                  = <<Line("info", "Creating typings for ", "", "",
                           cycles[c].n, 0)>>
            /\ Len(Summaries(c)) <= 1
            /\ cycles[c].readW = TotalWarnings(PipesOf(c))
            /\ cycles[c].readE = 0
            /\ \A k \in 1..Len(Summaries(c)) :
                  /\ Summaries(c)[k].n1 = TotalWarnings(PipesOf(c))
                  /\ Summaries(c)[k].n2 = 0

\* Two files, both written, three warnings between them, one summary.
BatchAllSucceedWitness ==
    \E c \in BatchCycles :
        /\ cycles[c].completions > 0
        /\ cycles[c].n = 2
        /\ \A i \in PipesOf(c) : Succeeded(i)
        /\ TotalWarnings(PipesOf(c)) = 3
        /\ Summaries(c) = <<Line("info", "batchSummary", "", "", 3, 0)>>

\* C5: in both modes a cycle prints its summary at most once, and has printed
\* it exactly when it has completed with warnings + errors > 0 (as read at
\* completion); a cycle that completed with 0 and 0 printed none.
SummaryIffNonZero ==
    /\ \A c \in 1..Len(cycles) :
          /\ cycles[c].completions <= 1
          /\ Len(Summaries(c))
                = (IF cycles[c].completions = 1
                      /\ cycles[c].readW + cycles[c].readE > 0
                   THEN 1 ELSE 0)
          /\ \A k \in 1..Len(Summaries(c)) :
                Summaries(c)[k].tag
                    = (IF cycles[c].mode = "batch" THEN "batchSummary"
                                                   ELSE "watchSummary")
    /\ LinesTagged(console, "batchSummary") = <<>>
    /\ LinesTagged(console, "watchSummary") = <<>>

\* Two watch events completed: one clean and silent, one with a summary.
SummaryIffNonZeroWitness ==
    /\ Len(cycles) = 2
    /\ cycles[1].mode = "watch"
    /\ cycles[1].completions = 1 /\ cycles[1].console = <<>>
    /\ cycles[2].completions = 1 /\ Len(Summaries(2)) = 1

\* C6: a pipeline whose render, create and write succeeded with warning list
\* W made exactly one writeFile call, called onWarning once per element of W,
\* in W's order, each message naming the source path, never called onError,
\* and resolved to the written artifact.
SuccessfulPipeline ==
    \A i \in 1..Len(pipes) :
        Succeeded(i) =>
            LET warned == CallsTo(i, "handleWarning")
            IN  /\ NumCalls(i, "writeFile") = 1
                /\ Len(warned) = Len(WarningList(i))
                /\ \A k \in 1..Len(warned) :
                      /\ warned[k].text = WarningList(i)[k]
                      /\ warned[k].path = pipes[i].pathName
                      /\ warned[k].tag = "WARNING: "
                /\ NumCalls(i, "handleError") = 0
                /\ pipes[i].pc = "resolved"
                /\ pipes[i].value.kind = "artifact"
                /\ pipes[i].value = pipes[i].wrote

\* A pipeline that succeeded with two warnings, and one with none.
SuccessfulPipelineWitness ==
    \E i, j \in 1..Len(pipes) :
        /\ Succeeded(i) /\ WarningList(i) = <<"w1", "w2">>
        /\ NumCalls(i, "handleWarning") = 2
        /\ Succeeded(j) /\ WarningList(j) = <<>>
        /\ NumCalls(j, "handleWarning") = 0

\* C7: when the glob callback found no files, no accounting closure and no
\* pipeline exists, no summary was printed, glob was called once, and the
\* zero-file notice is the one line printed.
ZeroFilesDoesNothing ==
    mainPc = "zeroFiles" =>
        /\ cycles = <<>>
        /\ pipes = <<>>
        /\ globCalls = 1
        /\ watchers = 0
        /\ console = <<Line("info", "Creating typings for 0 files", "", "",
                            0, 0)>>

ZeroFilesDoesNothingWitness ==
    /\ mainPc = "zeroFiles"
    /\ Len(LinesTagged(console, "Creating typings for 0 files")) = 1

\* C8: the cache flag equals the watch flag from the moment main sets it, and
\* every creator.create call carries it: false in batch mode, true in watch
\* mode, for add and change events alike.
CacheFlagIsWatchFlag ==
    /\ mainPc \notin {"start", "missingDir"} => cache = argv.w
    /\ \A i \in 1..Len(pipes) :
          /\ NumCalls(i, "creator.create") <= 1
          /\ \A k \in 1..NumCalls(i, "creator.create") :
                /\ CallsTo(i, "creator.create")[k].cache = argv.w
                /\ CallsTo(i, "creator.create")[k].cache
                      = (cycles[pipes[i].cycle].mode = "watch")
                /\ CallsTo(i, "creator.create")[k].path = pipes[i].pathName

\* Watch mode, an add and then a change, both past creator.create with
\* cache = true.
CacheFlagIsWatchFlagWitness ==
    /\ argv.w
    /\ Len(events) = 2
    /\ events[1].kind = "add" /\ events[2].kind = "change"
    /\ Len(pipes) = 2
    /\ \A i \in 1..2 :
          /\ NumCalls(i, "creator.create") = 1
          /\ CallsTo(i, "creator.create")[1].cache = TRUE

\* C9: when the search directory does not exist, main has printed the one
\* error line and nothing else has happened or ever happens: no glob call, no
\* watcher, no listener, no event handled, no closure, no pipeline.
MissingDirDoesNothing ==
    (~dirExists /\ mainPc # "start") =>
        /\ mainPc = "missingDir"
        /\ console = <<Line("error", "missingDir", argv.inputDir, "", 0, 0)>>
        /\ globCalls = 0
        /\ watchers = 0
        /\ handlers = {}
        /\ events = <<>>
        /\ cycles = <<>>
        /\ pipes = <<>>

MissingDirDoesNothingWitness ==
    /\ ~dirExists
    /\ argv.w
    /\ mainPc = "missingDir"
    /\ Len(console) = 1

\* C10 (as the spec states it): readSass settles exactly once; on success it
\* resolves with the rendered text; on failure it rejects with the error when
\* relativeTo is unset or '/', and resolves with an empty array for any other
\* relativeTo that was supplied.
ReadSassAsStated ==
    probe.pc = "settled" =>
        /\ Len(probe.settles) = 1
        /\ probe.err = Undefined =>
              probe.settles[1] = Settle("resolve", "text", probe.css)
        /\ (probe.err # Undefined /\ probe.relativeTo \in {Undefined, "/"}) =>
              probe.settles[1] = Settle("reject", "error", probe.err)
        /\ (probe.err # Undefined /\ probe.relativeTo \notin {Undefined, "/"})
              => probe.settles[1] = Settle("resolve", "array", "")

\* C10 (amended): readSass settles exactly once; on success it resolves with
\* the rendered text; on failure it rejects with the error when relativeTo is
\* falsy (unset or the empty string) or '/', and resolves with an empty array
\* when relativeTo is any other (truthy) value.
ReadSassSettlesOnce ==
    probe.pc = "settled" =>
        LET falsy == probe.relativeTo \in {Undefined, ""}
        IN  /\ Len(probe.settles) = 1
            /\ probe.err = Undefined =>
                  probe.settles[1] = Settle("resolve", "text", probe.css)
            /\ (probe.err # Undefined /\ (falsy \/ probe.relativeTo = "/")) =>
                  probe.settles[1] = Settle("reject", "error", probe.err)
            /\ (probe.err # Undefined /\ ~falsy /\ probe.relativeTo # "/") =>
                  probe.settles[1] = Settle("resolve", "array", "")

\* A failed render with relativeTo = '' is rejected; (separately reachable) a
\* failed render with relativeTo = 'src' is suppressed.
ReadSassSettlesOnceWitness ==
    /\ probe.pc = "settled"
    /\ probe.err = "SassError"
    /\ probe.relativeTo = ""
    /\ probe.settles = <<Settle("reject", "error", "SassError")>>

\* The events delivered so far that had a listener, in order.
HandledEvents == SelectSeq(events, LAMBDA e : e.kind \in {"add", "change"})

\* C11: in watch mode the listeners are exactly those of add and change; the
\* k-th add-or-change event started exactly one pipeline (the k-th), for the
\* path it delivered, in its own closure; an unlink event started nothing:
\* pipelines, writeFile calls and written artifacts are those of the add and
\* change events only.
WatchHandlesAddAndChange ==
    /\ mainPc = "watching" => handlers = {"add", "change"}
    /\ mainPc # "watching" => events = <<>>
    /\ argv.w =>
          /\ Len(pipes) = Len(HandledEvents)
          /\ Len(cycles) = Len(HandledEvents)
          /\ \A k \in 1..Len(pipes) :
                /\ pipes[k].pathName = HandledEvents[k].path
                /\ pipes[k].cycle = k
                /\ NumCalls(k, "sass.render") = 1
                /\ NumCalls(k, "writeFile") <= 1

\* a.scss was added and its artifact written, then a.scss was unlinked: still
\* one pipeline, and the artifact is as it was written.
WatchHandlesAddAndChangeWitness ==
    /\ events = <<[kind |-> "add", path |-> "a.scss"],
                  [kind |-> "unlink", path |-> "a.scss"]>>
    /\ Len(pipes) = 1
    /\ pipes[1].wrote.kind = "artifact"

\* The functions pipeline i called, in the order it called them.
Fns(i) == [k \in 1..Len(pipes[i].calls) |-> pipes[i].calls[k].fn]

\* C12: within one pipeline the steps are sequential and gated: sass.render
\* first; creator.create second and only after the render succeeded;
\* writeFile third and only after create succeeded; the verbose line and the
\* onWarning calls only after writeFile succeeded, the verbose line before any
\* warning; a failure at render, create or write is followed by onError and
\* by nothing else.
StepsSequential ==
    \A i \in 1..Len(pipes) :
        LET f == Fns(i)
            n == Len(f)
        IN  /\ n >= 1 /\ f[1] = "sass.render"
            /\ \A k \in 1..n :
                  /\ f[k] = "sass.render" => k = 1
                  /\ f[k] = "creator.create" =>
                        k = 2 /\ pipes[i].render = "ok"
                  /\ f[k] = "writeFile" =>
                        k = 3 /\ f[2] = "creator.create"
                              /\ pipes[i].create = "ok"
                  /\ f[k] = "console.info" =>
                        k = 4 /\ f[3] = "writeFile" /\ pipes[i].write = "ok"
                  /\ f[k] = "handleWarning" =>
                        k >= 4 /\ f[3] = "writeFile" /\ pipes[i].write = "ok"
                  /\ f[k] = "handleError" => k = n /\ Failed(i)
            /\ pipes[i].pc = "render" => f = <<"sass.render">>
            /\ pipes[i].pc = "create" => f = <<"sass.render", "creator.create">>
            /\ pipes[i].pc = "write" =>
                  f = <<"sass.render", "creator.create", "writeFile">>
            /\ pipes[i].render = "err" => f = <<"sass.render", "handleError">>
            /\ pipes[i].create = "err" =>
                  f = <<"sass.render", "creator.create", "handleError">>
            /\ pipes[i].write = "err" =>
                  f = <<"sass.render", "creator.create", "writeFile",
                        "handleError">>
            /\ Succeeded(i) =>
                  /\ n = 3 + (IF argv.v THEN 1 ELSE 0) + Len(WarningList(i))
                  /\ argv.v => f[4] = "console.info"

\* A verbose pipeline that went through every step and reported two warnings.
StepsSequentialWitness ==
    \E i \in 1..Len(pipes) :
        Fns(i) = <<"sass.render", "creator.create", "writeFile",
                   "console.info", "handleWarning", "handleWarning">>

\* What one step may do to the counters of cycle c.
CountersStep(c) ==
    /\ (cycles[c].completions = 0 /\ cycles'[c].completions = 0) =>
          /\ cycles'[c].warnings >= cycles[c].warnings
          /\ cycles'[c].errors >= cycles[c].errors
    /\ (cycles[c].completions = 0 /\ cycles'[c].completions > 0) =>
          /\ cycles'[c].readW >= cycles[c].warnings
          /\ cycles'[c].readE >= cycles[c].errors
          /\ \A i \in 1..Len(pipes') :
                pipes'[i].cycle = c =>
                    pipes'[i].pc \notin {"render", "create", "write"}
    /\ cycles[c].completions > 0 =>
          /\ cycles'[c] = cycles[c]
          /\ \A i \in PipesOf(c) : pipes'[i] = pipes[i]
          /\ \A i \in 1..Len(pipes') : pipes'[i].cycle = c => i \in PipesOf(c)

\* C13: until a cycle's completion step its counters never decrease; the
\* completion step reads them in a step after which every pipeline of the
\* cycle has settled; and once they were read, no pipeline of the cycle calls
\* onError or onWarning (or anything else) again.
CountersReadAfterSettle ==
    [][\A c \in 1..Len(cycles) : CountersStep(c)]_vars

\* A batch of two files read its counters, 1 warning and 1 error, with both
\* pipelines settled.
CountersReadAfterSettleWitness ==
    \E c \in BatchCycles :
        /\ cycles[c].n = 2
        /\ cycles[c].completions = 1
        /\ cycles[c].readW = 1 /\ cycles[c].readE = 1
        /\ \A i \in PipesOf(c) : ~Pending(i)

FailedIn(c) == {i \in PipesOf(c) : Failed(i)}

\* C14: a pipeline whose creator.create or writeFile failed has resolved with
\* no value after exactly one onError call (its last call, naming the path)
\* and no onWarning call, exactly as after a render failure; each failed
\* pipeline raised its cycle's error counter by exactly 1 whatever step
\* failed; and a cycle all of whose pipelines have settled has completed.
GenerationFailureAbsorbed ==
    /\ \A i \in 1..Len(pipes) :
          (pipes[i].create = "err" \/ pipes[i].write = "err") =>
              /\ pipes[i].pc = "resolved"
              /\ pipes[i].value = NoValue
              /\ pipes[i].wrote = NoValue
              /\ NumCalls(i, "handleError") = 1
              /\ pipes[i].calls[Len(pipes[i].calls)].fn = "handleError"
              /\ CallsTo(i, "handleError")[1].path = pipes[i].pathName
              /\ CallsTo(i, "handleError")[1].tag = "ERROR: "
              /\ NumCalls(i, "handleWarning") = 0
    /\ \A c \in 1..Len(cycles) :
          /\ (IF cycles[c].completions = 0 THEN cycles[c].errors
                                           ELSE cycles[c].readE)
                = Cardinality(FailedIn(c))
          /\ Len(LinesTagged(cycles[c].console, "ERROR: "))
                = Cardinality(FailedIn(c))
          /\ (\A i \in PipesOf(c) : ~Pending(i)) => cycles[c].completions = 1

\* A batch in which one file failed at creator.create and the other at
\* writeFile completed with 2 errors.
GenerationFailureAbsorbedWitness ==
    \E c \in BatchCycles : \E i, j \in PipesOf(c) :
        /\ pipes[i].create = "err"
        /\ pipes[j].write = "err"
        /\ cycles[c].completions = 1
        /\ cycles[c].readE = 2
        /\ Summaries(c) = <<Line("info", "batchSummary", "", "", 0, 2)>>

\* Every collaborator call (sass.render, creator.create, writeFile) of every
\* pipeline eventually settles.
CollaboratorSettles(i) ==
    /\ i \in 1..Len(pipes)
    /\ (RenderDone(i) \/ CreateDone(i) \/ WriteDone(i))

\* A run without the watch flag: main takes the else branch (cli.js:206), so
\* no watcher exists and no watcher event is ever delivered.
InitBatchRun == Init /\ argv.w = FALSE

NextBatchRun ==
    \/ MainMissingDir
    \/ MainBatch
    \/ GlobError
    \/ GlobEmpty
    \/ GlobFiles
    \/ \E i \in 1..Len(pipes) : RenderDone(i)
    \/ \E i \in 1..Len(pipes) : CreateDone(i)
    \/ \E i \in 1..Len(pipes) : WriteDone(i)

FairSpec ==
    /\ InitBatchRun
    /\ [][NextBatchRun]_vars
    /\ \A i \in 1..MaxFiles : WF_vars(CollaboratorSettles(i))

BatchCompleted == \E c \in BatchCycles : cycles[c].completions = 1

\* C15: given that every collaborator call eventually settles, a dispatched
\* batch eventually runs its completion step, whatever mix of successes and
\* failures its files produce; no pipeline ever rejects, and the completion
\* step runs once and never while a pipeline of the batch is still pending.
BatchTerminates ==
    /\ (mainPc = "batch") ~> BatchCompleted
    /\ [](\A i \in 1..Len(pipes) : pipes[i].pc # "rejected")
    /\ [](\A c \in BatchCycles :
            /\ cycles[c].completions <= 1
            /\ cycles[c].completions = 1
                  => \A i \in PipesOf(c) : ~Pending(i))

\* A batch of two files, one of which failed, has completed.
BatchTerminatesWitness ==
    \E c \in BatchCycles : \E i, j \in PipesOf(c) :
        /\ cycles[c].completions = 1
        /\ cycles[c].n = 2
        /\ Failed(i)
        /\ Succeeded(j)

Distinct(seq) == \A j, k \in 1..Len(seq) : seq[j] = seq[k] => j = k

\* C16: once the batch is dispatched there is exactly one pipeline per
\* discovered path, in order, none twice and none missing; every one of them
\* was started (its single sass.render call made) in the dispatching turn,
\* before any of them settled; and the file-count notice was printed before
\* any pipeline had started, with the number of pipelines launched.
BatchDispatchesEachPathOnce ==
    /\ mainPc = "batch" =>
          /\ discovered # <<>>
          /\ Distinct(discovered)
          /\ Len(pipes) = Len(discovered)
          /\ \A k \in 1..Len(pipes) :
                /\ pipes[k].pathName = discovered[k]
                /\ pipes[k].cycle = 1
                /\ NumCalls(k, "sass.render") = 1
                /\ pipes[k].calls[1] =
                       Call("sass.render", "", discovered[k], "", FALSE)
          /\ Len(cycles) = 1
          /\ cycles[1].n = Len(pipes)
          /\ console[1] = Line("info", "Creating typings for ", "", "",
                               Len(pipes), 0)
    /\ mainPc # "batch" => (discovered = <<>> /\ BatchCycles = {})

\* Two paths were discovered and both pipelines are pending at sass.render
\* at the same time, after the notice "Creating typings for 2 files".
BatchDispatchesEachPathOnceWitness ==
    /\ mainPc = "batch"
    /\ Len(discovered) = 2
    /\ \A k \in 1..Len(pipes) : pipes[k].pc = "render"
    /\ console = <<Line("info", "Creating typings for ", "", "", 2, 0)>>

\* The pipelines for pathName that have not settled.
InFlight(pathName) ==
    {i \in 1..Len(pipes) : pipes[i].pathName = pathName /\ Pending(i)}

\* C17: while the watcher runs, an add or change event for any path can be
\* handled, and starts its pipeline, whatever is in flight for that path:
\* nothing debounces or serializes events of one file.  So every handled
\* event has its own pipeline even when several of them are for one path.
WatchDoesNotDebounce ==
    /\ (mainPc = "watching" /\ Len(events) < MaxEvents) =>
          \A kind \in WatchedKinds, pathName \in WatchPaths :
              ENABLED Emit(kind, pathName)
    /\ argv.w =>
          \A pathName \in WatchPaths :
              Cardinality({i \in 1..Len(pipes) :
                              pipes[i].pathName = pathName})
                  = Len(SelectSeq(HandledEvents,
                                  LAMBDA e : e.path = pathName))

\* Two events for a.scss: both pipelines are in flight, each with its
\* writeFile call pending.
WatchDoesNotDebounceWitness ==
    /\ mainPc = "watching"
    /\ Len(pipes) = 2
    /\ InFlight("a.scss") = {1, 2}
    /\ pipes[1].pc = "write"
    /\ pipes[2].pc = "write"
    /\ NumCalls(1, "writeFile") = 1
    /\ NumCalls(2, "writeFile") = 1

\* C18: when glob reports an error, the error is the only thing printed: no
\* pipeline is started, no closure is created, and neither the file-count
\* notice, nor the zero-file notice, nor any summary appears.
GlobErrorOnlyReported ==
    mainPc = "globError" =>
        /\ \E err \in GlobErrors :
              console = <<Line("error", "globError", "", err, 0, 0)>>
        /\ pipes = <<>>
        /\ cycles = <<>>
        /\ discovered = <<>>
        /\ globCalls = 1
        /\ watchers = 0
        /\ LinesTagged(console, "Creating typings for ") = <<>>
        /\ LinesTagged(console, "Creating typings for 0 files") = <<>>
        /\ LinesTagged(console, "batchSummary") = <<>>

\* glob failed with EGLOB in a run whose input directory exists.
GlobErrorOnlyReportedWitness ==
    /\ mainPc = "globError"
    /\ dirExists
    /\ ~argv.w
    /\ console[1].info = "EGLOB"

ReturnedArtifact(i) == pipes[i].pc = "resolved" /\ pipes[i].value.kind = "artifact"
ReturnedNothing(i) == pipes[i].pc = "resolved" /\ pipes[i].value = NoValue

\* C19: every settled pipeline ended in exactly one of two ways: it returned
\* the artifact writeFile resolved with and never called onError, or it
\* returned no value after exactly one onError call and no onWarning call.
\* So when a batch of N paths has completed, the artifacts returned plus the
\* error count it read make N, and the error count is at most N.
PipelineOutcomes ==
    /\ \A i \in 1..Len(pipes) :
          ~Pending(i) =>
              /\ ReturnedArtifact(i) # ReturnedNothing(i)
              /\ ReturnedArtifact(i) =>
                    /\ pipes[i].value = pipes[i].wrote
                    /\ NumCalls(i, "handleError") = 0
              /\ ReturnedNothing(i) =>
                    /\ NumCalls(i, "handleError") = 1
                    /\ NumCalls(i, "handleWarning") = 0
    /\ \A c \in BatchCycles :
          cycles[c].completions = 1 =>
              /\ Cardinality({i \in PipesOf(c) : ReturnedArtifact(i)})
                    + cycles[c].readE = cycles[c].n
              /\ cycles[c].readE <= cycles[c].n
              /\ cycles[c].n = Cardinality(PipesOf(c))

\* A completed batch of two: one pipeline returned its artifact after two
\* onWarning calls, the other returned nothing after one onError call.
PipelineOutcomesWitness ==
    \E c \in BatchCycles : \E i, j \in PipesOf(c) :
        /\ cycles[c].completions = 1
        /\ ReturnedArtifact(i)
        /\ NumCalls(i, "handleWarning") = 2
        /\ ReturnedNothing(j)
        /\ cycles[c].readE = 1

\* Every line printed so far, by main and by the closures.
AllLines ==
    {console[k] : k \in 1..Len(console)}
        \cup UNION {{cycles[c].console[k] : k \in 1..Len(cycles[c].console)} :
                       c \in 1..Len(cycles)}

\* C20: a run takes one mode.  Without the watch flag it calls glob at most
\* once and runs at most one batch, and there is never a watcher, a listener,
\* a watch closure or a per-file watch summary.  With the watch flag it never
\* calls glob, never runs a batch and never prints the batch summary or the
\* file-count notices; the one watcher keeps its add and change listeners
\* after pipelines have failed, so a further add or change event can still be
\* handled and every handled event has its own pipeline.
OneModePerRun ==
    /\ ~argv.w =>
          /\ globCalls <= 1
          /\ Cardinality(BatchCycles) <= 1
          /\ watchers = 0
          /\ handlers = {}
          /\ events = <<>>
          /\ WatchCycles = {}
          /\ \A l \in AllLines : l.tag \notin {"watchSummary", "Watching "}
          /\ mainPc # "watching"
    /\ argv.w =>
          /\ globCalls = 0
          /\ BatchCycles = {}
          /\ discovered = <<>>
          /\ \A l \in AllLines :
                l.tag \notin {"batchSummary", "Creating typings for ",
                              "Creating typings for 0 files", "globError"}
          /\ mainPc \in {"start", "missingDir", "watching"}
          /\ mainPc = "watching" =>
                /\ watchers = 1
                /\ handlers = {"add", "change"}
                /\ Len(events) < MaxEvents => ENABLED WatchEventHandled
                /\ Len(pipes) = Len(HandledEvents)
                /\ \A k \in 1..Len(pipes) : pipes[k].cycle = k

\* In watch mode the first event's pipeline has failed and printed its
\* summary; the listeners are still attached and the next event can be
\* handled.
OneModePerRunWitness ==
    /\ mainPc = "watching"
    /\ Len(events) = 1
    /\ Len(pipes) = 1
    /\ Failed(1)
    /\ ReturnedNothing(1)
    /\ cycles[1].completions = 1
    /\ handlers = {"add", "change"}
    /\ ENABLED WatchEventHandled
=============================================================================
